---- MODULE Spec2Model ----
(***************************************************************************)
(* State-machine model of the ConversationRelay session engine:           *)
(*   SessionManager     (services/conversation/session.manager.ts)        *)
(*   MessageHandler     (services/websocket/message.handler.ts)           *)
(*   WebSocketService   (services/websocket/websocket.service.ts)         *)
(*   LlamaService       (services/llama/llama.service.ts)                 *)
(* One action per handler step.  A handler that awaits the completion     *)
(* backend is two steps: the part before the await and the continuation.  *)
(***************************************************************************)
EXTENDS Integers, Sequences, FiniteSets, TLC

\* ------------------------------------------------------------------ bounds
\* Connections (SessionWebSocket objects) and call identifiers in play.
Conns == {"ws1", "ws2"}
CallSids == {"CA1", "CA2"}
\* ws.callSid before Setup and after End.
Undefined == "undefined"
\* Inbound frames, over all connections, before the model stops feeding them.
MaxFrames == 4
\* addMessage calls per call identifier in the registry-only specification.
MaxAppends == 22
\* Inbound frames, over all connections, in the streaming specification.
MaxStreamFrames == 3
\* AbortControllers (generateStreamingResponse calls) created in SpecStream.
MaxStreams == 2
MaxControlFrames == 3
MaxBackendFrames == 2
MaxDigits == 3
MaxCommands == 2
MaxHistory == 11
MaxText == 5
\* session.manager.ts: "Keep only last 20 messages".
HistoryCap == 20

VARIABLES
    sessions,       \* SessionManager.sessions : Map<callSid, Session>
    callSid,        \* ws.callSid of every connection
    readyState,     \* ws.readyState of every connection
    seq,            \* inbound frames received so far on every connection
    pending,        \* handlePrompt invocations suspended at `await generateResponse`
    sent,           \* frames written to the transport by the last step
    step,           \* the handler step that ran last: [conn, type, stream]
    activeStreams,  \* LlamaService.activeStreams : Map<sessionId, AbortController>
    streams,        \* every generateStreamingResponse invocation, by controller
    appended,       \* registry-only specification: addMessage calls made per id
    ended,          \* history: call identifiers whose session endSession deleted
    enableDtmf,     \* config.features.enableDtmf, fixed when the process starts
    commands,       \* DtmfHandler: sequences added by registerCommand
    dtmfBuffer,     \* session.dtmfBuffer of every session
    result,         \* what the last processDigits call returned
    pressed,        \* processDigits calls made so far
    history,        \* the conversationHistory a caller hands to LlamaService
    request,        \* the messages buildMessages built last
    text,           \* the text a caller hands to StreamingHandler
    chunks,         \* what the StreamingHandler call returned
    breaker,        \* a CircuitBreaker: its fields and constructor arguments
    executing,      \* CircuitBreaker.execute calls suspended at `await fn()`
    now,            \* Date.now()
    retry           \* one retryWithBackoff call: its arguments and locals

vars == <<sessions, callSid, readyState, seq, pending, sent, step,
          activeStreams, streams, appended, ended, enableDtmf,
          commands, dtmfBuffer, result, pressed, history, request, text, chunks,
          breaker, executing, now, retry>>

\* The matcher's state; the router and the registry never touch it.
matcher == <<commands, dtmfBuffer, result, pressed>>

\* The arguments and results of the calls made on LlamaService.buildMessages
\* and on the StreamingHandler; no handler of the router touches them.
calls == <<history, request, text, chunks>>

NoCalls == history = <<>> /\ request = <<>> /\ text = <<>> /\ chunks = <<>>

\* The CircuitBreaker and retryWithBackoff of server.ts; nothing else of the
\* program reads or writes them.
guards == <<breaker, executing, now, retry>>

\* ------------------------------------------------------- SessionManager
Min(a, b) == IF a < b THEN a ELSE b
Max(a, b) == IF a > b THEN a ELSE b

\* Array.prototype.slice(-n)
sliceLast(h, n) == SubSeq(h, Max(1, Len(h) - n + 1), Len(h))

Entry(role, content) == [role |-> role, content |-> content]

\* createSession: builds a session with empty history and `sessions.set`s it.
createSession(s, id, from) ==
    [x \in (DOMAIN s) \cup {id} |->
        IF x = id
        THEN [callSid |-> id, from |-> from, conversationHistory |-> <<>>]
        ELSE s[x]]

\* getSession(id) is defined iff id \in DOMAIN sessions.
hasSession(s, id) == id \in DOMAIN s

\* The trim of addMessage with the newest entries dropped instead of the oldest.
addMessage_KeepOldest(s, id, role, content) ==
    IF id \in DOMAIN s
    THEN LET h == Append(s[id].conversationHistory, Entry(role, content))
         IN  [s EXCEPT ![id].conversationHistory =
                 IF Len(h) > HistoryCap THEN SubSeq(h, 1, HistoryCap) ELSE h]
    ELSE s

\* addMessage that stores a session for an id the registry does not hold.
addMessage_CreatesMissing(s, id, role, content) ==
    LET r == IF id \in DOMAIN s THEN s ELSE createSession(s, id, "none")
        h == Append(r[id].conversationHistory, Entry(role, content))
    IN  [r EXCEPT ![id].conversationHistory = sliceLast(h, HistoryCap)]

\* addMessage: push, then keep the last 20; nothing when the id is absent.
addMessage(s, id, role, content) ==
    IF id \in DOMAIN s
    THEN LET h == Append(s[id].conversationHistory, Entry(role, content))
         IN  [s EXCEPT ![id].conversationHistory =
                 IF Len(h) > HistoryCap THEN sliceLast(h, HistoryCap) ELSE h]
    ELSE s

\* endSession: `sessions.delete` when present.
endSession(s, id) ==
    IF id \in DOMAIN s THEN [x \in (DOMAIN s) \ {id} |-> s[x]] ELSE s

\* The identifiers endSession(id) deletes from s (none when id is absent).
deleted(s, id) == (DOMAIN s) \cap {id}

getActiveCallCount(s) == Cardinality(DOMAIN s)

EmptyMap == [x \in {} |-> 0]
NoStep == [conn |-> "none", type |-> "init", stream |-> 0, arg |-> "", number |-> 0]

\* A processDigits result: { message, transfer?, endCall? }, with the outcome
\* of the matching step that produced it.
Result(outcome, message, endCall, transfer) ==
    [outcome |-> outcome, message |-> message, endCall |-> endCall,
     transfer |-> transfer]

NoResult == Result("none", "", FALSE, "")

\* new CircuitBreaker(threshold, timeout): failures = 0, lastFailureTime = 0,
\* state = 'CLOSED'.
CircuitBreaker(threshold, timeout) ==
    [state |-> "CLOSED", failures |-> 0, lastFailureTime |-> 0,
     threshold |-> threshold, timeout |-> timeout]

\* No retryWithBackoff call has been made.
NotRetrying ==
    [status |-> "idle", maxRetries |-> 0, baseDelay |-> 0, i |-> 0,
     invoked |-> 0, errors |-> <<>>, lastError |-> "undefined",
     waits |-> <<>>, outcome |-> ""]

\* A breaker built with the defaults of its constructor, no call on it.
NoGuards ==
    /\ breaker = CircuitBreaker(5, 60000)
    /\ executing = 0
    /\ now = 1
    /\ retry = NotRetrying

Init ==
    /\ sessions = EmptyMap
    /\ callSid = [c \in Conns |-> Undefined]
    /\ readyState = [c \in Conns |-> "OPEN"]
    /\ seq = [c \in Conns |-> 0]
    /\ pending = [c \in Conns |-> {}]
    /\ sent = <<>>
    /\ step = NoStep
    /\ activeStreams = EmptyMap
    /\ streams = <<>>
    /\ appended = [id \in CallSids |-> 0]
    /\ ended = {}
    /\ enableDtmf = FALSE      \* ENABLE_DTMF unset
    /\ commands = {}
    /\ dtmfBuffer = [id \in CallSids |-> <<>>]
    /\ result = NoResult
    /\ pressed = 0
    /\ NoCalls
    /\ NoGuards

\* ------------------------------------------------------------ LlamaService
\* What the completion backend does with one request.
Outcomes == {"ok", "empty", "RateLimitError", "AuthenticationError",
             "APIConnectionTimeoutError", "InternalServerError", "Error"}

\* Caller utterance number n on connection c, and the backend's answer to it.
Utterance(c, n) == <<"said", c, n>>
Reply(c, n) == <<"reply", c, n>>
\* The fixed user-facing messages of generateResponse (one per failure class).
Apology(class) == <<"apology", class, 0>>

\* generateResponse answering every failure with the one default message.
generateResponse_OneMessage(c, n, outcome) ==
    IF outcome = "ok" THEN Reply(c, n) ELSE Apology("Error")

\* generateResponse: never throws; a failure of any class becomes a message.
generateResponse(c, n, outcome) ==
    IF outcome = "ok" THEN Reply(c, n) ELSE Apology(outcome)

\* cancelStream emptying the whole map of controllers.
cancelStreamHandles_ClearsAll(a, id) ==
    IF id \in DOMAIN a THEN EmptyMap ELSE a

\* cancelStream: abort the controller registered for the id and unregister it.
cancelStreamHandles(a, id) ==
    IF id \in DOMAIN a THEN [x \in (DOMAIN a) \ {id} |-> a[x]] ELSE a

cancelStreamRuns(a, st, id) ==
    IF id \in DOMAIN a THEN [st EXCEPT ![a[id]].aborted = TRUE] ELSE st

\* --------------------------------------------------------- WebSocketService
TextMessage(token) == [type |-> "text", token |-> token, last |-> TRUE]

\* sendResponse without the readyState test.
sendResponse_NoStateCheck(c, response) == <<[to |-> c, frame |-> response]>>

\* sendResponse: writes the frame only to an OPEN socket.
sendResponse(c, response) ==
    IF readyState[c] = "OPEN" THEN <<[to |-> c, frame |-> response]>> ELSE <<>>

\* A 'message' event is delivered on an open socket; the listener is async and
\* is not awaited by the emitter, so delivery does not wait for earlier frames.
RECURSIVE Total(_, _)
Total(f, S) == IF S = {} THEN 0
               ELSE LET x == CHOOSE y \in S : TRUE IN f[x] + Total(f, S \ {x})

CanReceive(c) == readyState[c] = "OPEN" /\ Total(seq, Conns) < MaxFrames

\* `arg` and `number` of `step` keep the frame's payload: its digit, and its
\* sequenceNumber where a handler reads it.
ReceivedFrame(c, type, arg, number) ==
    /\ seq' = [seq EXCEPT ![c] = @ + 1]
    /\ step' = [conn |-> c, type |-> type, stream |-> 0, arg |-> arg,
                number |-> number]
    /\ UNCHANGED <<enableDtmf, guards, matcher, calls>>

Received(c, type) == ReceivedFrame(c, type, "", 0)

\* ----------------------------------------------------------- MessageHandler
\* handlePrompt's two early returns, with the session test left out.
promptAccepted_NoSessionCheck(c) == callSid[c] # Undefined

\* handlePrompt goes past its two early returns.
promptAccepted(c) == callSid[c] # Undefined /\ hasSession(sessions, callSid[c])

\* handleSetup: createSession, then ws.callSid = message.callSid; no reply.
handleSetup(c, id) ==
    /\ CanReceive(c)
    /\ Received(c, "setup")
    /\ sessions' = createSession(sessions, id, c)
    /\ callSid' = [callSid EXCEPT ![c] = id]
    /\ sent' = <<>>
    /\ UNCHANGED <<readyState, pending, activeStreams, streams, appended, ended>>

\* handlePrompt up to `await generateResponse`: drop without a live session,
\* else append the user turn and suspend.
handlePrompt(c) ==
    /\ CanReceive(c)
    /\ Received(c, "prompt")
    /\ sent' = <<>>
    /\ IF promptAccepted(c)
       THEN /\ sessions' = addMessage(sessions, callSid[c], "user",
                                      Utterance(c, seq[c] + 1))
            /\ pending' = [pending EXCEPT ![c] =
                              @ \cup {[n |-> seq[c] + 1, interrupted |-> FALSE]}]
       ELSE UNCHANGED <<sessions, pending>>
    /\ UNCHANGED <<callSid, readyState, activeStreams, streams, appended, ended>>

\* handlePrompt after the await: append the assistant turn under the
\* connection's current ws.callSid, return the Text; handleMessage sends it.
promptCompletes(c, p, outcome) ==
    /\ p \in pending[c]
    /\ LET response == generateResponse(c, p.n, outcome)
       IN  /\ sessions' = addMessage(sessions, callSid[c], "assistant", response)
           /\ sent' = sendResponse(c, TextMessage(response))
    /\ pending' = [pending EXCEPT ![c] = @ \ {p}]
    /\ step' = [conn |-> c, type |-> "completion", stream |-> 0, arg |-> outcome,
                number |-> 0]
    /\ UNCHANGED <<callSid, readyState, seq, activeStreams, streams, appended, ended,
                   enableDtmf, guards, matcher, calls>>

\* handleInterrupt: cancelStream(ws.callSid) when set; no reply.  The flag
\* on the suspended prompts records that an Interrupt overtook them.
handleInterrupt(c) ==
    /\ CanReceive(c)
    /\ Received(c, "interrupt")
    /\ sent' = <<>>
    /\ IF callSid[c] # Undefined
       THEN /\ activeStreams' = cancelStreamHandles(activeStreams, callSid[c])
            /\ streams' = cancelStreamRuns(activeStreams, streams, callSid[c])
       ELSE UNCHANGED <<activeStreams, streams>>
    /\ pending' = [pending EXCEPT ![c] =
                      {[p EXCEPT !.interrupted = TRUE] : p \in @}]
    /\ UNCHANGED <<sessions, callSid, readyState, appended, ended>>

\* handleEnd: endSession(ws.callSid) and ws.callSid = undefined, when set.
handleEnd(c) ==
    /\ CanReceive(c)
    /\ Received(c, "end")
    /\ sent' = <<>>
    /\ IF callSid[c] # Undefined
       THEN /\ sessions' = endSession(sessions, callSid[c])
            /\ ended' = ended \cup deleted(sessions, callSid[c])
            /\ callSid' = [callSid EXCEPT ![c] = Undefined]
       ELSE UNCHANGED <<sessions, callSid, ended>>
    /\ UNCHANGED <<readyState, pending, activeStreams, streams, appended>>

\* The socket closes: 'close' listener -> handleDisconnection ends the session
\* of ws.callSid when set.  ws.callSid is left as it is.
handleDisconnection(c) ==
    /\ readyState[c] = "OPEN"
    /\ readyState' = [readyState EXCEPT ![c] = "CLOSED"]
    /\ sessions' = IF callSid[c] # Undefined
                   THEN endSession(sessions, callSid[c]) ELSE sessions
    /\ ended' = ended \cup deleted(sessions, callSid[c])
    /\ sent' = <<>>
    /\ step' = [conn |-> c, type |-> "close", stream |-> 0, arg |-> "", number |-> 0]
    /\ UNCHANGED <<callSid, seq, pending, activeStreams, streams, appended, enableDtmf, guards,
                   matcher, calls>>


\* ------------------------------------------- the remaining inbound frames
\* `Error: ${error}` of sendError.
ErrorToken(error) == <<"Error: ", error, 0>>

\* sendError that writes nothing.
sendError_Silent(c, error) == <<>>

\* sendError: a Text with the error, through sendResponse.
sendError(c, error) == sendResponse(c, TextMessage(ErrorToken(error)))

\* The token of MessageHandler.handleMessage's catch block.
GenericApology == Apology("Error")

\* A handler's exception escaping MessageHandler.handleMessage: the catch of
\* WebSocketService.handleMessage answers it.
handlerCatch_Rethrows(c) == sendError(c, "Invalid message format")

\* MessageHandler.handleMessage's catch: the apology Text is returned and
\* WebSocketService.handleMessage sends it.
handlerCatch(c) == sendResponse(c, TextMessage(GenericApology))

PongMessage(n) == [type |-> "pong", sequenceNumber |-> n]

\* The Pong of handleMessage with the sequence number not copied.
pingReply_FreshNumber(c, n) == <<[to |-> c, frame |-> PongMessage(seq[c] + 1)]>>

\* Ping: answered by WebSocketService.handleMessage itself with ws.send.
pingReply(c, n) == <<[to |-> c, frame |-> PongMessage(n)]>>

SequenceNumbers == {3, 7}

handlePing(c, n) ==
    /\ CanReceive(c)
    /\ ReceivedFrame(c, "ping", "", n)
    /\ sent' = pingReply(c, n)
    /\ UNCHANGED <<sessions, callSid, readyState, pending, activeStreams, streams,
                   appended, ended>>

\* message.digit is any string; "A" is none of 0-9, '*', '#'.
Digits == {"#", "*", "0", "5", "A"}

EndSessionMessage == [type |-> "end"]

\* The three Text replies of handleDtmf.
DtmfToken(digit) ==
    CASE digit = "*" -> <<"You pressed star", digit, 0>>
      [] digit = "0" -> <<"You pressed zero", digit, 0>>
      [] OTHER       -> <<"You pressed", digit, 0>>

\* handleDtmf's reply with '#' answered like any other digit.
dtmfResponse_HashIsText(c, digit) ==
    IF ~enableDtmf THEN <<>> ELSE sendResponse(c, TextMessage(DtmfToken(digit)))

\* handleDtmf's reply with the feature test left out.
dtmfResponse_AlwaysOn(c, digit) ==
    sendResponse(c, IF digit = "#" THEN EndSessionMessage
                    ELSE TextMessage(DtmfToken(digit)))

\* handleDtmf: null when the feature is off; '#' -> end, else a Text.  The
\* handler reads neither ws.callSid (but to log it) nor the registry.
dtmfResponse(c, digit) ==
    IF ~enableDtmf THEN <<>>
    ELSE sendResponse(c, IF digit = "#" THEN EndSessionMessage
                         ELSE TextMessage(DtmfToken(digit)))

handleDtmf(c, digit) ==
    /\ CanReceive(c)
    /\ ReceivedFrame(c, "dtmf", digit, 0)
    /\ sent' = dtmfResponse(c, digit)
    /\ UNCHANGED <<sessions, callSid, readyState, pending, activeStreams, streams,
                   appended, ended>>

\* handleError: logs the Twilio error; handleMessage returns null.
handleError(c) ==
    /\ CanReceive(c)
    /\ Received(c, "error")
    /\ sent' = <<>>
    /\ UNCHANGED <<sessions, callSid, readyState, pending, activeStreams, streams,
                   appended, ended>>

\* A frame that parses but whose type is none of the switch's cases.
handleUnknown(c) ==
    /\ CanReceive(c)
    /\ Received(c, "unknown")
    /\ sent' = <<>>
    /\ UNCHANGED <<sessions, callSid, readyState, pending, activeStreams, streams,
                   appended, ended>>

\* A frame JSON.parse rejects (or that parses to null): the catch of
\* WebSocketService.handleMessage calls sendError.
handleMalformed(c) ==
    /\ CanReceive(c)
    /\ Received(c, "malformed")
    /\ sent' = sendError(c, "Invalid message format")
    /\ UNCHANGED <<sessions, callSid, readyState, pending, activeStreams, streams,
                   appended, ended>>

HandlerTypes == {"setup", "prompt", "interrupt", "dtmf", "end", "error"}

\* The statements of a handler that can throw are its logger calls; those of
\* handleDtmf run only with the feature on.
CanThrow(type) == type = "dtmf" => enableDtmf

\* A handler throws.  Every handler logs before it changes anything, except
\* that createSession logs after `sessions.set`: a Setup may throw with the
\* session stored and ws.callSid not yet assigned.
handlerThrows(c, type, id, stored) ==
    /\ CanReceive(c)
    /\ CanThrow(type)
    /\ ReceivedFrame(c, "threw", type, 0)
    /\ sessions' = IF type = "setup" /\ stored
                   THEN createSession(sessions, id, c) ELSE sessions
    /\ sent' = handlerCatch(c)
    /\ UNCHANGED <<callSid, readyState, pending, activeStreams, streams,
                   appended, ended>>

Next ==
    \/ \E c \in Conns, id \in CallSids : handleSetup(c, id)
    \/ \E c \in Conns : handlePrompt(c)
    \/ \E c \in Conns : \E p \in pending[c] : \E o \in Outcomes :
           promptCompletes(c, p, o)
    \/ \E c \in Conns : handleInterrupt(c)
    \/ \E c \in Conns : handleEnd(c)
    \/ \E c \in Conns : handleDisconnection(c)

Spec == Init /\ [][Next]_vars

\* ------------------------------ the router under every kind of inbound frame
ControlFrames == Total(seq, Conns) < MaxControlFrames

InitFrames ==
    /\ sessions = EmptyMap
    /\ callSid = [c \in Conns |-> Undefined]
    /\ readyState = [c \in Conns |-> "OPEN"]
    /\ seq = [c \in Conns |-> 0]
    /\ pending = [c \in Conns |-> {}]
    /\ sent = <<>>
    /\ step = NoStep
    /\ activeStreams = EmptyMap
    /\ streams = <<>>
    /\ appended = [id \in CallSids |-> 0]
    /\ ended = {}
    /\ enableDtmf \in BOOLEAN
    /\ commands = {}
    /\ dtmfBuffer = [id \in CallSids |-> <<>>]
    /\ result = NoResult
    /\ pressed = 0
    /\ NoCalls
    /\ NoGuards

NextFrames ==
    \/ \E c \in Conns, id \in CallSids : ControlFrames /\ handleSetup(c, id)
    \/ \E c \in Conns : ControlFrames /\ handleEnd(c)
    \/ \E c \in Conns : handleDisconnection(c)
    \/ \E c \in Conns, n \in SequenceNumbers : ControlFrames /\ handlePing(c, n)
    \/ \E c \in Conns, d \in Digits : ControlFrames /\ handleDtmf(c, d)
    \/ \E c \in Conns : ControlFrames /\ handleError(c)
    \/ \E c \in Conns : ControlFrames /\ handleUnknown(c)
    \/ \E c \in Conns : ControlFrames /\ handleMalformed(c)
    \/ \E c \in Conns, type \in HandlerTypes, id \in CallSids, stored \in BOOLEAN :
           ControlFrames /\ handlerThrows(c, type, id, stored)

SpecFrames == InitFrames /\ [][NextFrames]_vars

\* ------------------------------------------- LlamaService: streaming calls
\* generateStreamingResponse as any client of LlamaService may call it (the
\* router itself only calls generateResponse).  Controller k is streams[k].
Stream(id) == [sessionId |-> id, aborted |-> FALSE, running |-> TRUE]

\* `this.activeStreams.set(sessionId, abortController)`
setHandle(a, id, k) == [x \in (DOMAIN a) \cup {id} |-> IF x = id THEN k ELSE a[x]]

\* `finally { this.activeStreams.delete(sessionId) }`: by key, whoever owns it.
deleteHandle(a, id) == [x \in (DOMAIN a) \ {id} |-> a[x]]

\* `step` names the controller whose call made the step.
StreamStep(k, type) ==
    /\ step' = [conn |-> "llama", type |-> type, stream |-> k, arg |-> "",
                number |-> 0]
    /\ sent' = <<>>
    /\ UNCHANGED <<sessions, callSid, readyState, seq, pending, appended, ended,
                   enableDtmf, guards, matcher, calls>>

\* generateStreamingResponse up to the first await: new controller, registered.
generateStreamingResponse(id) ==
    /\ Len(streams) < MaxStreams
    /\ streams' = Append(streams, Stream(id))
    /\ activeStreams' = setHandle(activeStreams, id, Len(streams) + 1)
    /\ StreamStep(Len(streams) + 1, "stream:start")

\* One iteration of `for await` that reaches onChunk: only when not aborted.
streamChunk(k) ==
    /\ k \in DOMAIN streams
    /\ streams[k].running /\ ~streams[k].aborted
    /\ UNCHANGED <<streams, activeStreams>>
    /\ StreamStep(k, "stream:chunk")

\* The call returns without an apology: the backend stream ended, the loop
\* broke on `signal.aborted`, or the SDK threw while the signal was aborted.
streamEnds(k) ==
    /\ k \in DOMAIN streams
    /\ streams[k].running
    /\ streams' = [streams EXCEPT ![k].running = FALSE]
    /\ activeStreams' = deleteHandle(activeStreams, streams[k].sessionId)
    /\ StreamStep(k, IF streams[k].aborted THEN "stream:cancelled"
                                           ELSE "stream:complete")

\* The SDK throws and the signal is not aborted: onChunk(apology), then finally.
streamFails(k) ==
    /\ k \in DOMAIN streams
    /\ streams[k].running /\ ~streams[k].aborted
    /\ streams' = [streams EXCEPT ![k].running = FALSE]
    /\ activeStreams' = deleteHandle(activeStreams, streams[k].sessionId)
    /\ StreamStep(k, "stream:error")

\* The router's part in streaming: Setup names the call, Interrupt cancels,
\* a close ends the session.
StreamFrames == Total(seq, Conns) < MaxStreamFrames

NextStream ==
    \/ \E c \in Conns, id \in CallSids : StreamFrames /\ handleSetup(c, id)
    \/ \E c \in Conns : StreamFrames /\ handleInterrupt(c)
    \/ \E c \in Conns : handleDisconnection(c)
    \/ \E id \in CallSids : generateStreamingResponse(id)
    \/ \E k \in DOMAIN streams : streamChunk(k)
    \/ \E k \in DOMAIN streams : streamEnds(k)
    \/ \E k \in DOMAIN streams : streamFails(k)

SpecStream == Init /\ [][NextStream]_vars

\* ------------------------------------- both ways of calling the backend
BackendFrames == Total(seq, Conns) < MaxBackendFrames

NextBackend ==
    \/ \E c \in Conns, id \in CallSids : BackendFrames /\ handleSetup(c, id)
    \/ \E c \in Conns : BackendFrames /\ handlePrompt(c)
    \/ \E c \in Conns : \E p \in pending[c] : \E o \in Outcomes :
           promptCompletes(c, p, o)
    \/ \E c \in Conns : handleDisconnection(c)
    \/ \E id \in CallSids : generateStreamingResponse(id)
    \/ \E k \in DOMAIN streams : streamEnds(k)
    \/ \E k \in DOMAIN streams : streamFails(k)

SpecBackend == Init /\ [][NextBackend]_vars

\* ------------------------------------------------ DtmfHandler (the matcher)
ValidDigits == {"0", "1", "2", "3", "4", "5", "6", "7", "8", "9", "*", "#"}

\* The keys fed to processDigits; "A" is not a DTMF digit of the matcher.
PressedKeys == {"0", "1", "2", "3", "7", "9", "*", "#", "A"}

IsPrefix(p, s) == Len(p) <= Len(s) /\ SubSeq(s, 1, Len(p)) = p
IsStrictPrefix(p, s) == Len(p) < Len(s) /\ IsPrefix(p, s)

\* The commands present without any registration.
DefaultSequences == {<<"#">>, <<"*">>, <<"9">>, <<"0">>, <<"1">>}

\* The sequences registerCommand is called with.
CustomSequences ==
    {<<"1", "2">>, <<"1", "2", "3">>, <<"9", "9">>, <<"1", "#">>, <<"*", "1">>}

Registered(cs) == DefaultSequences \cup cs

\* The description a custom command was registered with.
Description(s) ==
    CASE s = <<"1", "2">>      -> "Command 12"
      [] s = <<"1", "2", "3">> -> "Test command"
      [] s = <<"9", "9">>      -> "Secret menu"
      [] s = <<"1", "#">>      -> "Command 1#"
      [] OTHER                 -> "Command *1"

NoPrevious == "No previous message to repeat."

\* The repeat command answering with the last entry, whoever said it.
lastAssistant_LastEntry(h) ==
    IF h = <<>> THEN NoPrevious ELSE h[Len(h)].content

\* The content of the most recent assistant entry of a history.
lastAssistant(h) ==
    LET idx == {i \in DOMAIN h : h[i].role = "assistant"}
    IN  IF idx = {} THEN NoPrevious
        ELSE h[CHOOSE i \in idx : \A j \in idx : j <= i].content

\* The default commands with the operator entry giving no transfer directive.
execute_NoTransfer(s, h) ==
    CASE s = <<"*">> -> Result("match", "main menu", FALSE, "")
      [] s = <<"9">> -> Result("match", lastAssistant(h), FALSE, "")
      [] s = <<"0">> -> Result("match", "operator", FALSE, "")
      [] s = <<"1">> -> Result("match", "account information", FALSE, "")
      [] OTHER       -> Result("match", Description(s), FALSE, "")

\* The effect of the command whose sequence the buffer equals.
execute(s, h) ==
    CASE s = <<"*">> -> Result("match", "main menu", FALSE, "")
      [] s = <<"9">> -> Result("match", lastAssistant(h), FALSE, "")
      [] s = <<"0">> -> Result("match", "operator", FALSE, "operator")
      [] s = <<"1">> -> Result("match", "account information", FALSE, "")
      [] OTHER       -> Result("match", Description(s), FALSE, "")

Matched(outcome, buffer) == [result |-> outcome, buffer |-> buffer]

\* The table lookup with a pending outcome that does not keep the new digit.
lookup_PendingDropsDigit(cs, b, h) ==
    IF \E s \in Registered(cs) : IsStrictPrefix(b, s)
    THEN Matched(Result("pending", "continue entering digits", FALSE, ""),
                 SubSeq(b, 1, Len(b) - 1))
    ELSE IF b \in Registered(cs)
    THEN Matched(execute(b, h), <<>>)
    ELSE Matched(Result("nomatch", "not a valid option", FALSE, ""), <<>>)

\* The table lookup with an exact match winning over a longer sequence.
lookup_ExactFirst(cs, b, h) ==
    IF b \in Registered(cs)
    THEN Matched(execute(b, h), <<>>)
    ELSE IF \E s \in Registered(cs) : IsStrictPrefix(b, s)
    THEN Matched(Result("pending", "continue entering digits", FALSE, ""), b)
    ELSE Matched(Result("nomatch", "not a valid option", FALSE, ""), <<>>)

\* The table lookup for buffer b: pending while a longer sequence starts
\* with b, else a match when b is registered, else no match.
lookup(cs, b, h) ==
    IF \E s \in Registered(cs) : IsStrictPrefix(b, s)
    THEN Matched(Result("pending", "continue entering digits", FALSE, ""), b)
    ELSE IF b \in Registered(cs)
    THEN Matched(execute(b, h), <<>>)
    ELSE Matched(Result("nomatch", "not a valid option", FALSE, ""), <<>>)

\* matchDigit without the '**' clear command.
matchDigit_NoClear(cs, buffer, d, h) ==
    IF d \notin ValidDigits
    THEN Matched(Result("rejected", "", FALSE, ""), buffer)
    ELSE IF d = "#"
    THEN Matched(Result("end", "Goodbye", TRUE, ""), <<>>)
    ELSE lookup(cs, Append(buffer, d), h)

\* matchDigit with a buffer that is kept when nothing matches.
matchDigit_KeepsOnNoMatch(cs, buffer, d, h) ==
    IF d \notin ValidDigits
    THEN Matched(Result("rejected", "", FALSE, ""), buffer)
    ELSE IF d = "#"
    THEN Matched(Result("end", "Goodbye", TRUE, ""), <<>>)
    ELSE IF d = "*" /\ buffer = <<"*">>
    THEN Matched(Result("clear", "Clear DTMF buffer", FALSE, ""), <<>>)
    ELSE LET m == lookup(cs, Append(buffer, d), h)
         IN  IF m.result.outcome = "nomatch"
             THEN Matched(m.result, Append(buffer, d)) ELSE m

\* One digit: rejected when not a DTMF digit; '#' and '**' before the table.
matchDigit(cs, buffer, d, h) ==
    IF d \notin ValidDigits
    THEN Matched(Result("rejected", "", FALSE, ""), buffer)
    ELSE IF d = "#"
    THEN Matched(Result("end", "Goodbye", TRUE, ""), <<>>)
    ELSE IF d = "*" /\ buffer = <<"*">>
    THEN Matched(Result("clear", "Clear DTMF buffer", FALSE, ""), <<>>)
    ELSE lookup(cs, Append(buffer, d), h)

\* `number` of a processDigits step is the length the buffer had before it.
DtmfStep(who, type, arg, number) ==
    /\ step' = [conn |-> who, type |-> type, stream |-> 0, arg |-> arg,
                number |-> number]
    /\ sent' = <<>>
    /\ UNCHANGED <<sessions, callSid, readyState, seq, pending, activeStreams,
                   streams, appended, ended, enableDtmf, guards, calls>>

registerCommand(s) ==
    /\ s \notin commands
    /\ Cardinality(commands) < MaxCommands
    /\ commands' = commands \cup {s}
    /\ UNCHANGED <<dtmfBuffer, result, pressed>>
    /\ DtmfStep("matcher", "registerCommand", "", 0)

DigitsLeft == pressed + Total(seq, Conns) < MaxDigits

processDigits(d, id) ==
    /\ DigitsLeft
    /\ id \in DOMAIN sessions
    /\ LET m == matchDigit(commands, dtmfBuffer[id], d,
                           sessions[id].conversationHistory)
       IN  /\ result' = m.result
           /\ dtmfBuffer' = [dtmfBuffer EXCEPT ![id] = m.buffer]
    /\ pressed' = pressed + 1
    /\ UNCHANGED commands
    /\ DtmfStep(id, "processDigits", d, Len(dtmfBuffer[id]))

\* The sessions handed to processDigits.
SampleHistories ==
    {<<>>,
     <<Entry("user", "I need assistance")>>,
     <<Entry("assistant", "Welcome!"), Entry("user", "I need assistance"),
       Entry("assistant", "Happy to help.")>>}

InitDtmf ==
    /\ \E h \in SampleHistories :
          sessions = [id \in CallSids |->
                         [callSid |-> id, from |-> "ws1", conversationHistory |-> h]]
    /\ callSid = [c \in Conns |-> Undefined]
    /\ readyState = [c \in Conns |-> "OPEN"]
    /\ seq = [c \in Conns |-> 0]
    /\ pending = [c \in Conns |-> {}]
    /\ sent = <<>>
    /\ step = NoStep
    /\ activeStreams = EmptyMap
    /\ streams = <<>>
    /\ appended = [id \in CallSids |-> 0]
    /\ ended = {}
    /\ enableDtmf \in BOOLEAN
    /\ commands = {}
    /\ dtmfBuffer = [id \in CallSids |-> <<>>]
    /\ result = NoResult
    /\ pressed = 0
    /\ NoCalls
    /\ NoGuards

NextDtmf ==
    \/ \E s \in CustomSequences : registerCommand(s)
    \/ \E d \in PressedKeys, id \in CallSids : processDigits(d, id)
    \/ \E c \in Conns, d \in Digits : DigitsLeft /\ handleDtmf(c, d)

SpecDtmf == InitDtmf /\ [][NextDtmf]_vars

\* ------------------------------------------- SessionManager driven directly
\* The registry's operations called in any order.  The k-th addMessage of a
\* session carries content k; roles alternate as handlePrompt produces them.
RegRole(k) == IF k % 2 = 1 THEN "user" ELSE "assistant"
RegEntry(k) == Entry(RegRole(k), k)

RegStep(type, id) ==
    /\ step' = [conn |-> "api", type |-> type, stream |-> 0, arg |-> id,
                number |-> 0]
    /\ UNCHANGED <<callSid, readyState, seq, pending, sent, activeStreams, streams,
                   enableDtmf, guards, matcher, calls>>

RegCreate(id) ==
    /\ \E from \in Conns : sessions' = createSession(sessions, id, from)
    /\ appended' = [appended EXCEPT ![id] = 0]
    /\ UNCHANGED ended
    /\ RegStep("createSession", id)

RegAddMessage(id) ==
    /\ appended[id] < MaxAppends
    /\ sessions' = addMessage(sessions, id, RegRole(appended[id] + 1), appended[id] + 1)
    /\ appended' = IF hasSession(sessions, id)
                   THEN [appended EXCEPT ![id] = @ + 1] ELSE appended
    /\ UNCHANGED ended
    /\ RegStep("addMessage", id)

RegEnd(id) ==
    /\ sessions' = endSession(sessions, id)
    /\ appended' = [appended EXCEPT ![id] = 0]
    /\ ended' = ended \cup deleted(sessions, id)
    /\ RegStep("endSession", id)

NextRegistry ==
    \/ \E id \in CallSids : RegCreate(id)
    \/ \E id \in CallSids : RegAddMessage(id)
    \/ \E id \in CallSids : RegEnd(id)

SpecRegistry == Init /\ [][NextRegistry]_vars

\* --------------------------------------------- LlamaService.buildMessages
\* `conversationHistory.slice(-10)`
RequestCap == 10

\* config.llama.systemPrompt
SystemPrompt == <<"system prompt", 0>>

Roles == {"user", "assistant", "system"}

\* The k-th entry a caller put into the history, and the new user prompt.
Said(k) == <<"entry", k>>
UserPrompt == <<"prompt", 0>>

\* buildMessages that copies the system-role entries too.
buildMessages_KeepsSystem(userPrompt, conversationHistory) ==
    <<Entry("system", SystemPrompt)>>
        \o sliceLast(conversationHistory, RequestCap)
        \o <<Entry("user", userPrompt)>>

\* buildMessages: the system prompt, the entries of slice(-10) whose role is
\* not system, the user prompt.
buildMessages(userPrompt, conversationHistory) ==
    <<Entry("system", SystemPrompt)>>
        \o SelectSeq(sliceLast(conversationHistory, RequestCap),
                     LAMBDA entry : entry.role # "system")
        \o <<Entry("user", userPrompt)>>

CallStep(type) ==
    /\ step' = [conn |-> "caller", type |-> type, stream |-> 0, arg |-> "",
                number |-> 0]
    /\ sent' = <<>>
    /\ UNCHANGED <<sessions, callSid, readyState, seq, pending, activeStreams,
                   streams, appended, ended, enableDtmf, guards, matcher>>

\* The caller of generateResponse grows the history it will hand over.
pushEntry(role) ==
    /\ request = <<>>
    /\ Len(history) < MaxHistory
    /\ history' = Append(history, Entry(role, Said(Len(history) + 1)))
    /\ UNCHANGED <<request, text, chunks>>
    /\ CallStep("pushEntry")

\* generateResponse(userPrompt, conversationHistory) builds its request.
buildRequest ==
    /\ request = <<>>
    /\ request' = buildMessages(UserPrompt, history)
    /\ UNCHANGED <<history, text, chunks>>
    /\ CallStep("buildMessages")

\* session.conversationHistory once handlePrompt has run
\* `addMessage(ws.callSid, 'user', message.voicePrompt)` on a session whose
\* history is h.
promptHistory(h, voicePrompt) ==
    addMessage([id \in {"caller"} |-> [conversationHistory |-> h]],
               "caller", "user", voicePrompt)["caller"].conversationHistory

\* handlePrompt from addMessage to the generateResponse call, on a session
\* whose history is `history`: the user turn is appended first, then the
\* history is read back from the session and handed over with the prompt.
handlePromptRequest ==
    /\ request = <<>>
    /\ history' = promptHistory(history, UserPrompt)
    /\ request' = buildMessages(UserPrompt, history')
    /\ UNCHANGED <<text, chunks>>
    /\ CallStep("handlePrompt")

NextRequest ==
    \/ \E role \in Roles : pushEntry(role)
    \/ buildRequest
    \/ handlePromptRequest

SpecRequest == Init /\ [][NextRequest]_vars

\* --------------------------------------------------------- StreamingHandler
\* A text is the sequence of its characters.
\* The backtick character.
Backtick == "backtick"

IsSpace(ch) == ch \in {" ", "\n", "\t"}

\* The first index k >= from at which pat occurs in s, or 0.
IndexOf(s, pat, from) ==
    LET at == {k \in from..(Len(s) - Len(pat) + 1) :
                  SubSeq(s, k, k + Len(pat) - 1) = pat}
    IN  IF at = {} THEN 0 ELSE CHOOSE k \in at : \A j \in at : k <= j

\* String.replace(/pat/g, rep) for a literal pat: leftmost, not overlapping.
RECURSIVE replaceAll(_, _, _)
replaceAll(s, pat, rep) ==
    IF Len(s) < Len(pat) THEN s
    ELSE IF SubSeq(s, 1, Len(pat)) = pat
    THEN rep \o replaceAll(SubSeq(s, Len(pat) + 1, Len(s)), pat, rep)
    ELSE <<s[1]>> \o replaceAll(Tail(s), pat, rep)

Fence == <<Backtick, Backtick, Backtick>>

\* replace(/```[\s\S]*?```/g, '')
RECURSIVE stripCodeBlocks(_)
stripCodeBlocks(s) ==
    LET i == IndexOf(s, Fence, 1)
        j == IF i = 0 THEN 0 ELSE IndexOf(s, Fence, i + 3)
    IN  IF j = 0 THEN s
        ELSE SubSeq(s, 1, i - 1) \o stripCodeBlocks(SubSeq(s, j + 3, Len(s)))

\* replace(/`([^`]+)`/g, '$1')
RECURSIVE stripInlineCode(_)
stripInlineCode(s) ==
    IF s = <<>> THEN <<>>
    ELSE LET k == IndexOf(s, <<Backtick>>, 3)
         IN  IF s[1] = Backtick /\ Len(s) >= 3 /\ s[2] # Backtick /\ k # 0
             THEN SubSeq(s, 2, k - 1) \o stripInlineCode(SubSeq(s, k + 1, Len(s)))
             ELSE <<s[1]>> \o stripInlineCode(Tail(s))

\* The length of the run of ch that starts s.
RECURSIVE runOf(_, _)
runOf(s, ch) == IF s # <<>> /\ s[1] = ch THEN 1 + runOf(Tail(s), ch) ELSE 0

\* replace(/#{1,6}\s/g, '')
RECURSIVE stripHeaders(_)
stripHeaders(s) ==
    IF s = <<>> THEN <<>>
    ELSE LET r == runOf(s, "#")
         IN  IF r >= 1 /\ r <= 6 /\ Len(s) > r /\ IsSpace(s[r + 1])
             THEN stripHeaders(SubSeq(s, r + 2, Len(s)))
             ELSE <<s[1]>> \o stripHeaders(Tail(s))

\* replace(/\[([^\]]+)\]\([^)]+\)/g, '$1')
RECURSIVE stripLinks(_)
stripLinks(s) ==
    IF s = <<>> THEN <<>>
    ELSE LET k == IndexOf(s, <<"]">>, 2)
             m == IF k = 0 THEN 0 ELSE IndexOf(s, <<")">>, k + 2)
         IN  IF /\ s[1] = "["
                /\ k >= 3
                /\ Len(s) > k
                /\ s[k + 1] = "("
                /\ m >= k + 3
             THEN SubSeq(s, 2, k - 1) \o stripLinks(SubSeq(s, m + 1, Len(s)))
             ELSE <<s[1]>> \o stripLinks(Tail(s))

\* replace(/\s+/g, ' ')
RECURSIVE collapseSpaces(_)
collapseSpaces(s) ==
    IF s = <<>> THEN <<>>
    ELSE IF IsSpace(s[1])
    THEN IF Len(s) > 1 /\ IsSpace(s[2])
         THEN collapseSpaces(Tail(s))
         ELSE <<" ">> \o collapseSpaces(Tail(s))
    ELSE <<s[1]>> \o collapseSpaces(Tail(s))

\* String.prototype.trim
RECURSIVE trim(_)
trim(s) ==
    IF s = <<>> THEN <<>>
    ELSE IF IsSpace(s[1]) THEN trim(Tail(s))
    ELSE IF IsSpace(s[Len(s)]) THEN trim(SubSeq(s, 1, Len(s) - 1))
    ELSE s

Word(w) == <<" ">> \o w \o <<" ">>

\* cleanForVoice: the twelve replacements, in the order of the code.
cleanForVoice(s) ==
    LET bold    == replaceAll(s, <<"*", "*">>, <<>>)
        italic  == replaceAll(bold, <<"*">>, <<>>)
        blocks  == stripCodeBlocks(italic)
        inline  == stripInlineCode(blocks)
        headers == stripHeaders(inline)
        links   == stripLinks(headers)
        angles  == replaceAll(replaceAll(links, <<"<">>, <<>>), <<">">>, <<>>)
        amp     == replaceAll(angles, <<"&">>, Word(<<"a", "n", "d">>))
        at      == replaceAll(amp, <<"@">>, Word(<<"a", "t">>))
        number  == replaceAll(at, <<"#">>, Word(<<"n", "u", "m", "b", "e", "r">>))
    IN  trim(collapseSpaces(number))

SentenceEnders == {".", "!", "?"}

\* The first index of a whitespace run that follows a sentence ender, or 0.
Boundary(s) ==
    LET at == {k \in 2..Len(s) : IsSpace(s[k]) /\ s[k - 1] \in SentenceEnders}
    IN  IF at = {} THEN 0 ELSE CHOOSE k \in at : \A j \in at : k <= j

\* cleanText.split(/(?<=[.!?])\s+/)
RECURSIVE splitSentences(_)
splitSentences(s) ==
    LET i == Boundary(s)
    IN  IF i = 0 THEN <<s>>
        ELSE LET rest == SubSeq(s, i, Len(s))
                 n == runOf(rest, " ")
                 w == IF n = 0 THEN 1 ELSE n
             IN  <<SubSeq(s, 1, i - 1)>>
                     \o splitSentences(SubSeq(s, i + w, Len(s)))

\* The loop of splitIntoSpeakableChunks over the sentences from the k-th on.
RECURSIVE packChunks(_, _, _, _, _)
packChunks(sentences, k, out, currentChunk, maxLength) ==
    IF k > Len(sentences)
    THEN IF currentChunk # <<>> THEN Append(out, currentChunk) ELSE out
    ELSE LET sentence == sentences[k]
         IN  IF Len(currentChunk) + 1 + Len(sentence) <= maxLength
             THEN packChunks(sentences, k + 1, out,
                             (IF currentChunk # <<>> THEN currentChunk \o <<" ">>
                              ELSE <<>>) \o sentence,
                             maxLength)
             ELSE packChunks(sentences, k + 1,
                             IF currentChunk # <<>> THEN Append(out, currentChunk)
                             ELSE out,
                             sentence, maxLength)

splitIntoSpeakableChunks(s, maxLength) ==
    packChunks(splitSentences(cleanForVoice(s)), 1, <<>>, <<>>, maxLength)

\* The characters the texts are made of, and the text of the documentation.
Chars == {"a", ".", " ", "*", Backtick, "#", "[", "]", "(", ")", "<", "&"}

HelloText == <<"*", "*", "H", "e", "l", "l", "o", "*", "*", " ", "#", "1">>

MaxLengths == {2, 4}

NotCalled == step.type \in {"init", "pushChar"}

VoiceStep(type, number) ==
    /\ step' = [conn |-> "caller", type |-> type, stream |-> 0, arg |-> "",
                number |-> number]
    /\ sent' = <<>>
    /\ UNCHANGED <<sessions, callSid, readyState, seq, pending, activeStreams,
                   streams, appended, ended, enableDtmf, guards, matcher, history, request>>

pushChar(ch) ==
    /\ NotCalled
    /\ Len(text) < MaxText
    /\ text' = Append(text, ch)
    /\ UNCHANGED chunks
    /\ VoiceStep("pushChar", 0)

pickHello ==
    /\ step.type = "init"
    /\ text' = HelloText
    /\ UNCHANGED chunks
    /\ VoiceStep("pushChar", 0)

callCleanForVoice ==
    /\ NotCalled
    /\ chunks' = <<cleanForVoice(text)>>
    /\ UNCHANGED text
    /\ VoiceStep("cleanForVoice", 0)

callSplit(maxLength) ==
    /\ NotCalled
    /\ chunks' = splitIntoSpeakableChunks(text, maxLength)
    /\ UNCHANGED text
    /\ VoiceStep("splitIntoSpeakableChunks", maxLength)

NextVoice ==
    \/ \E ch \in Chars : pushChar(ch)
    \/ pickHello
    \/ callCleanForVoice
    \/ \E maxLength \in MaxLengths : callSplit(maxLength)

SpecVoice == Init /\ [][NextVoice]_vars

\* ------------------------------------------------- CircuitBreaker (server.ts)
\* Time is counted in ticks; the constructor arguments a breaker is built with.
Thresholds == {1, 2, 3}
Timeouts == {1, 2}
\* Date.now() stops advancing here, fn stops failing at this failure count,
\* and no more calls than this are suspended at once.
MaxClock == 5
MaxFailures == 4
MaxExecuting == 2

OpenError == "Circuit breaker is OPEN"

\* What the first statement of execute does: the breaker after it, and the
\* error it throws ("" when it goes on to call fn).
Gate(b, thrown) == [breaker |-> b, thrown |-> thrown]

\* The test of execute letting a call through when exactly `timeout` has passed.
gate_AtTimeout(b, t) ==
    IF b.state = "OPEN"
    THEN IF t - b.lastFailureTime >= b.timeout
         THEN Gate([b EXCEPT !.state = "HALF_OPEN"], "")
         ELSE Gate(b, OpenError)
    ELSE Gate(b, "")

\* execute, before the try: OPEN and Date.now() - lastFailureTime > timeout
\* -> HALF_OPEN; OPEN otherwise -> throw; any other state -> go on.
gate(b, t) ==
    IF b.state = "OPEN"
    THEN IF t - b.lastFailureTime > b.timeout
         THEN Gate([b EXCEPT !.state = "HALF_OPEN"], "")
         ELSE Gate(b, OpenError)
    ELSE Gate(b, "")

\* recordFailure: failures++, lastFailureTime = Date.now(), OPEN at threshold.
recordFailure(b, t) ==
    LET f == b.failures + 1
    IN  [b EXCEPT !.failures = f, !.lastFailureTime = t,
                  !.state = IF f >= b.threshold THEN "OPEN" ELSE @]

\* reset that leaves the failure count as it is.
reset_KeepsFailures(b) ==
    [b EXCEPT !.state = "CLOSED", !.lastFailureTime = 0]

\* reset: failures = 0, state = 'CLOSED', lastFailureTime = 0.
reset(b) ==
    [b EXCEPT !.failures = 0, !.state = "CLOSED", !.lastFailureTime = 0]

BreakerStep(type, arg) ==
    /\ step' = [conn |-> "breaker", type |-> type, stream |-> 0, arg |-> arg,
                number |-> 0]
    /\ sent' = <<>>
    /\ UNCHANGED <<sessions, callSid, readyState, seq, pending, activeStreams,
                   streams, appended, ended, enableDtmf, matcher, calls, retry>>

\* execute up to `await fn()`: rejected at the gate, or fn is invoked and the
\* call suspends.
executeCall ==
    /\ executing < MaxExecuting
    /\ LET g == gate(breaker, now)
       IN  /\ breaker' = g.breaker
           /\ executing' = IF g.thrown = "" THEN executing + 1 ELSE executing
           /\ BreakerStep(IF g.thrown = "" THEN "execute:invoked"
                                           ELSE "execute:thrown", g.thrown)
    /\ UNCHANGED now

\* fn resolved: reset when the breaker is HALF_OPEN at that moment (`arg` of
\* the step is what reset logs).
executeResolves ==
    /\ executing > 0
    /\ executing' = executing - 1
    /\ breaker' = IF breaker.state = "HALF_OPEN" THEN reset(breaker) ELSE breaker
    /\ BreakerStep("execute:resolved",
                   IF breaker.state = "HALF_OPEN" THEN "Circuit breaker reset"
                   ELSE "")
    /\ UNCHANGED now

\* fn rejected: recordFailure, and the error is rethrown.
executeRejects ==
    /\ executing > 0
    /\ breaker.failures < MaxFailures
    /\ executing' = executing - 1
    /\ breaker' = recordFailure(breaker, now)
    /\ BreakerStep("execute:rejected", "fn error")
    /\ UNCHANGED now

\* A millisecond passes.
Tick ==
    /\ now < MaxClock
    /\ now' = now + 1
    /\ BreakerStep("tick", "")
    /\ UNCHANGED <<breaker, executing>>

InitBreaker ==
    /\ sessions = EmptyMap
    /\ callSid = [c \in Conns |-> Undefined]
    /\ readyState = [c \in Conns |-> "OPEN"]
    /\ seq = [c \in Conns |-> 0]
    /\ pending = [c \in Conns |-> {}]
    /\ sent = <<>>
    /\ step = NoStep
    /\ activeStreams = EmptyMap
    /\ streams = <<>>
    /\ appended = [id \in CallSids |-> 0]
    /\ ended = {}
    /\ enableDtmf = FALSE
    /\ commands = {}
    /\ dtmfBuffer = [id \in CallSids |-> <<>>]
    /\ result = NoResult
    /\ pressed = 0
    /\ NoCalls
    /\ \E threshold \in Thresholds, timeout \in Timeouts :
           breaker = CircuitBreaker(threshold, timeout)
    /\ executing = 0
    /\ now = 1
    /\ retry = NotRetrying

NextBreaker ==
    \/ executeCall
    \/ executeResolves
    \/ executeRejects
    \/ Tick

SpecBreaker == InitBreaker /\ [][NextBreaker]_vars

\* ----------------------------------------------- retryWithBackoff (server.ts)
\* The largest maxRetries a call is made with, the base delays, and what fn
\* rejects with.
MaxRetries == 4
BaseDelays == {1, 1000}
FnErrors == {"E1", "E2"}
FnResult == "result"

\* The delay with a step that grows by baseDelay each time.
backoff_Linear(baseDelay, i) == baseDelay * (i + 1)

\* `baseDelay * Math.pow(2, i)`
backoff(baseDelay, i) == baseDelay * 2^i

RetryStep(type, arg) ==
    /\ step' = [conn |-> "retry", type |-> type, stream |-> 0, arg |-> arg,
                number |-> 0]
    /\ sent' = <<>>
    /\ UNCHANGED <<sessions, callSid, readyState, seq, pending, activeStreams,
                   streams, appended, ended, enableDtmf, matcher, calls,
                   breaker, executing, now>>

\* The top of the for loop with counter i: fn is invoked when i < maxRetries,
\* else the loop is left and `throw lastError` rejects the call.
loopTop(r, i) ==
    IF i < r.maxRetries
    THEN [r EXCEPT !.i = i, !.invoked = @ + 1, !.status = "awaiting"]
    ELSE [r EXCEPT !.i = i, !.status = "rejected", !.outcome = r.lastError]

\* retryWithBackoff(fn, maxRetries, baseDelay) up to its first await.
retryWithBackoff(maxRetries, baseDelay) ==
    /\ retry.status = "idle"
    /\ retry' = loopTop([NotRetrying EXCEPT !.maxRetries = maxRetries,
                                            !.baseDelay = baseDelay], 0)
    /\ RetryStep("retryWithBackoff", "")

\* fn resolved: `return await fn()`.
fnResolves ==
    /\ retry.status = "awaiting"
    /\ retry' = [retry EXCEPT !.status = "returned", !.outcome = FnResult]
    /\ RetryStep("fn:resolved", FnResult)

\* fn rejected: lastError = error; before the last attempt a timer is set and
\* awaited, after it the loop goes round at once (and ends).
fnRejects(error) ==
    /\ retry.status = "awaiting"
    /\ LET r == [retry EXCEPT !.lastError = error,
                              !.errors = Append(@, error)]
       IN  retry' = IF r.i < r.maxRetries - 1
                    THEN [r EXCEPT !.status = "sleeping",
                                   !.waits = Append(@, backoff(r.baseDelay, r.i))]
                    ELSE loopTop(r, r.i + 1)
    /\ RetryStep("fn:rejected", error)

\* The timer of setTimeout fires: i++ and the loop goes round.
timerFires ==
    /\ retry.status = "sleeping"
    /\ retry' = loopTop(retry, retry.i + 1)
    /\ RetryStep("timer", "")

NextRetry ==
    \/ \E maxRetries \in 0..MaxRetries, baseDelay \in BaseDelays :
           retryWithBackoff(maxRetries, baseDelay)
    \/ fnResolves
    \/ \E error \in FnErrors : fnRejects(error)
    \/ timerFires

\* fn settles every time it is invoked, and a timer that was set fires.
SpecRetry ==
    /\ Init
    /\ [][NextRetry]_vars
    /\ WF_vars(fnResolves \/ \E error \in FnErrors : fnRejects(error))
    /\ WF_vars(timerFires)

\* ================================================================= claims
\* The connection has a live session: ws.callSid names a registry entry.
LiveSession(c) == callSid[c] \in DOMAIN sessions

RouterStep(type) == step.type = type /\ step.conn \in Conns

\* C1: under any sequence of createSession/addMessage/endSession calls, every
\* session's history has at most 20 entries and is exactly the last (at most
\* 20) entries appended to it, in the order they were appended: the oldest
\* entries are the ones dropped.
LastAppended(n) ==
    [i \in 1..Min(n, HistoryCap) |-> RegEntry(n - Min(n, HistoryCap) + i)]

C1_HistoryIsLastTwenty ==
    \A id \in DOMAIN sessions :
        /\ Len(sessions[id].conversationHistory) <= HistoryCap
        /\ sessions[id].conversationHistory = LastAppended(appended[id])

\* An append past the cap has happened: 20 entries kept, the first dropped.
C1_Witness ==
    /\ step.type = "addMessage"
    /\ \E id \in DOMAIN sessions :
          /\ appended[id] > HistoryCap
          /\ Len(sessions[id].conversationHistory) = HistoryCap
          /\ sessions[id].conversationHistory[1].content = appended[id] - HistoryCap + 1

\* C2: while the handling of a frame of connection c is suspended at the
\* backend call, no other frame of c is handled and c's close handler does
\* not run.
C2_RunToCompletion ==
    [][\A c \in Conns :
          pending[c] # {} => (seq'[c] = seq[c] /\ readyState'[c] = readyState[c])]_vars

\* C3 as stated: the continuation of every accepted Prompt writes exactly one
\* Text frame with last = TRUE.
C3_AlwaysOneText ==
    RouterStep("completion") =>
        /\ Len(sent) = 1
        /\ sent[1].to = step.conn
        /\ sent[1].frame.type = "text" /\ sent[1].frame.last

\* C3 amended: the continuation of an accepted Prompt writes exactly one Text
\* frame with last = TRUE (reply or apology) to its connection when that
\* connection is still open, and nothing when it has closed meanwhile; the
\* part of the handling before the backend call writes nothing.
C3_OneTextWhileOpen ==
    /\ (RouterStep("completion") /\ readyState[step.conn] = "OPEN") =>
          /\ Len(sent) = 1
          /\ sent[1].to = step.conn
          /\ sent[1].frame.type = "text" /\ sent[1].frame.last
    /\ (RouterStep("completion") /\ readyState[step.conn] = "CLOSED") =>
          sent = <<>>
    /\ RouterStep("prompt") => sent = <<>>

\* A Prompt whose backend call failed has been answered with an apology Text,
\* and another one completed after its connection closed.
C3_Witness ==
    /\ RouterStep("completion")
    /\ readyState[step.conn] = "OPEN"
    /\ Len(sent) = 1 /\ sent[1].frame.token[1] = "apology"
    /\ \E c \in Conns : readyState[c] = "CLOSED" /\ seq[c] >= 2 /\ pending[c] = {}

\* C4: a Prompt received on a connection without a live session writes no
\* frame, starts no backend call and leaves the registry (every session and
\* its history) as it was.
C4_PromptWithoutSessionDropped ==
    [][\A c \in Conns :
          (step'.type = "prompt" /\ step'.conn = c /\ seq'[c] # seq[c] /\ ~LiveSession(c))
          => (sent' = <<>> /\ pending' = pending /\ sessions' = sessions)]_vars

\* A Prompt was just dropped on a connection whose session End had removed.
C4_Witness ==
    /\ RouterStep("prompt")
    /\ ~LiveSession(step.conn)
    /\ callSid[step.conn] = Undefined
    /\ seq[step.conn] >= 3
    /\ ended # {}

\* C5: a call identifier whose session was removed (by End or by close) never
\* has a session in the registry again.
C5_NoResurrection == \A id \in ended : id \notin DOMAIN sessions

\* C6: the continuation of a Prompt that an Interrupt overtook writes no Text.
C6_InterruptSilencesPrompt ==
    [][\A c \in Conns : \A p \in pending[c] :
          (p.interrupted /\ p \notin pending'[c]) => sent' = <<>>]_vars

\* C7: for every session id at most one streaming call is running un-aborted.
Running(id) ==
    {k \in DOMAIN streams :
        streams[k].sessionId = id /\ streams[k].running /\ ~streams[k].aborted}

C7_AtMostOneRunningStream == \A id \in CallSids : Cardinality(Running(id)) <= 1

\* C8: when a streaming call starts, every call still running for the same
\* session id is aborted by that start.
C8_StartCancelsPrevious ==
    [][step'.type = "stream:start" =>
          \A k \in DOMAIN streams :
              (streams[k].running /\ streams[k].sessionId = streams'[step'.stream].sessionId)
              => streams'[k].aborted]_vars

\* C9: a Setup (createSession) for an identifier that is in the registry
\* leaves that session in place, with its history.
C9_CreateKeepsLiveSession ==
    [][step'.type = "setup" =>
          \A id \in DOMAIN sessions :
              /\ id \in DOMAIN sessions'
              /\ sessions'[id].conversationHistory = sessions[id].conversationHistory]_vars

\* C10: a step of connection c (a frame handled, a backend call returning, or
\* its close) changes no session that another connection's Setup created.
C10_OwnerOnly ==
    [][\A id \in DOMAIN sessions :
          (step'.conn \in Conns /\ step'.conn # sessions[id].from)
          => (id \in DOMAIN sessions' /\ sessions'[id] = sessions[id])]_vars

\* C11: when a connection with a live session closes, the close handler
\* leaves neither a session nor a stream cancellation handle registered for
\* that connection's call identifier.
C11_CloseReleasesSessionAndStream ==
    [][\A c \in Conns :
          (readyState[c] = "OPEN" /\ readyState'[c] = "CLOSED" /\ LiveSession(c))
          => /\ callSid[c] \notin DOMAIN sessions'
             /\ callSid[c] \notin DOMAIN activeStreams']_vars

\* C12: when a handler called by the router throws, MessageHandler.handleMessage
\* answers with exactly one Text carrying the generic apology with last = true,
\* and the connection stays open.
C12_ThrowBecomesOneApology ==
    [][step'.type = "threw" =>
          /\ sent' = <<[to |-> step'.conn,
                        frame |-> [type |-> "text", token |-> GenericApology,
                                   last |-> TRUE]]>>
          /\ readyState' = readyState
          /\ readyState'[step'.conn] = "OPEN"]_vars

C12_Witness ==
    /\ step.type = "threw"
    /\ step.arg = "end"
    /\ LiveSession(step.conn)
    /\ Len(sent) = 1

SessionStateUnchanged ==
    /\ sessions' = sessions
    /\ callSid' = callSid
    /\ readyState' = readyState

C15_PingPong ==
    [][step'.type = "ping" =>
          /\ sent' = <<[to |-> step'.conn,
                        frame |-> [type |-> "pong",
                                   sequenceNumber |-> step'.number]]>>
          /\ sessions' = sessions
          /\ callSid' = callSid]_vars

C15_Witness ==
    /\ step.type = "ping"
    /\ step.number = 7
    /\ LiveSession(step.conn)
    /\ \E c \in Conns : ~LiveSession(c)
    /\ Len(sent) = 1

\* C16: addMessage on an id the registry does not hold changes nothing: no
\* session is created, no other history changes, the count stays.
C16_AddMessageAbsentIsNoOp ==
    [][(step'.type = "addMessage" /\ step'.arg \notin DOMAIN sessions) =>
          /\ sessions' = sessions
          /\ getActiveCallCount(sessions') = getActiveCallCount(sessions)]_vars

C16_Witness ==
    /\ step.type = "addMessage"
    /\ step.arg \notin DOMAIN sessions
    /\ \E id \in DOMAIN sessions : Len(sessions[id].conversationHistory) > 0

\* C17: a Dtmf received on a connection without a live session produces no
\* outbound event.
C17_DtmfWithoutSessionDropped ==
    (step.type = "dtmf" /\ ~LiveSession(step.conn)) => sent = <<>>

\* C18: with the DTMF feature off a Dtmf (also '#') produces no outbound event
\* and changes no session state; a Dtmf produces an outbound event, a Text or
\* an EndSession, only with the feature on.
C18_DtmfOnlyWhenEnabled ==
    [][step'.type = "dtmf" =>
          /\ SessionStateUnchanged
          /\ ~enableDtmf => sent' = <<>>
          /\ sent' # <<>> => /\ enableDtmf
                             /\ Len(sent') = 1
                             /\ sent'[1].frame.type \in {"text", "end"}]_vars

C18_Witness ==
    /\ step.type = "dtmf"
    /\ step.arg = "#"
    /\ ~enableDtmf
    /\ LiveSession(step.conn)

FailureClasses == Outcomes \ {"ok", "empty"}

\* A failed streaming call leaves every other session's stream and handle as
\* they were, and the registry too.
OnlyFailingStreamEnds ==
    step'.type = "stream:error" =>
        LET id == streams[step'.stream].sessionId
        IN  /\ \A j \in DOMAIN streams :
                   streams[j].sessionId # id => streams'[j] = streams[j]
            /\ \A x \in (DOMAIN activeStreams) \ {id} :
                   x \in DOMAIN activeStreams' /\ activeStreams'[x] = activeStreams[x]
            /\ sessions' = sessions

ApologyText(c, class) ==
    <<[to |-> c, frame |-> [type |-> "text", token |-> Apology(class), last |-> TRUE]]>>

\* C14 as stated: a backend failure of any class during a Prompt yields exactly
\* one apology Text, the session stays registered, and a failing stream ends
\* alone.
C14_BackendFailureOneApology ==
    [][/\ (step'.type = "completion" /\ step'.arg \in FailureClasses) =>
             /\ sent' = ApologyText(step'.conn, step'.arg)
             /\ DOMAIN sessions' = DOMAIN sessions
       /\ OnlyFailingStreamEnds]_vars

\* C14, amended: a backend failure of any class during a Prompt becomes that
\* class's apology; the caller receives it as exactly one Text if the
\* connection is still open when the call returns and nothing if it has
\* closed; the registry keeps its sessions; a failing stream ends alone.
C14_BackendFailureApologyWhileOpen ==
    [][/\ (step'.type = "completion" /\ step'.arg \in FailureClasses) =>
             /\ sent' = IF readyState[step'.conn] = "OPEN"
                        THEN ApologyText(step'.conn, step'.arg) ELSE <<>>
             /\ DOMAIN sessions' = DOMAIN sessions
       /\ OnlyFailingStreamEnds]_vars

C14_Witness ==
    /\ step.type = "completion"
    /\ step.arg = "RateLimitError"
    /\ LiveSession(step.conn)
    /\ Len(sent) = 1
    /\ activeStreams # EmptyMap

\* C19: pressing '#' always yields an end-call result: processDigits returns
\* endCall = true whatever the buffer held and whatever is registered, and the
\* router (feature on) answers a '#' Dtmf with an EndSession event.
C19_HashEndsCall ==
    [][/\ (step'.type = "processDigits" /\ step'.arg = "#") =>
             result'.endCall /\ result'.outcome = "end"
       /\ (step'.type = "dtmf" /\ step'.arg = "#" /\ enableDtmf) =>
             sent' = <<[to |-> step'.conn, frame |-> [type |-> "end"]]>>]_vars

C19_Witness ==
    /\ step.type = "processDigits"
    /\ step.arg = "#"
    /\ step.number > 0
    /\ <<"1", "#">> \in commands
    /\ result.endCall

\* The digit of a processDigits call goes to the table lookup: a DTMF digit
\* other than '#' and other than the second '*' of '**'.
TableDigit(d, buffer) ==
    d \in ValidDigits \ {"#"} /\ ~(d = "*" /\ buffer = <<"*">>)

Pending(r) == r.outcome = "pending" /\ r.message = "continue entering digits"

NoMatchClears(id) ==
    LET b == Append(dtmfBuffer[id], step'.arg)
    IN  (\A s \in Registered(commands) : ~IsPrefix(b, s)) =>
            /\ result'.outcome = "nomatch"
            /\ result'.message = "not a valid option"
            /\ dtmfBuffer'[id] = <<>>

ProcessDigitsStep(id) == step'.type = "processDigits" /\ step'.conn = id

BufferEmptyOrPrefix(id) ==
    \/ dtmfBuffer[id] = <<>>
    \/ \E s \in Registered(commands) : IsStrictPrefix(dtmfBuffer[id], s)

ClearsBuffer(id) ==
    dtmfBuffer[id] = <<"*">> =>
        /\ result'.outcome = "clear"
        /\ result'.message = "Clear DTMF buffer"
        /\ dtmfBuffer'[id] = <<>>

C26_InvalidDigitRejected ==
    [][/\ (step'.type = "dtmf" /\ step'.arg \notin ValidDigits) => sent' = <<>>
       /\ \A id \in CallSids :
             (ProcessDigitsStep(id) /\ step'.arg \notin ValidDigits) =>
                 /\ dtmfBuffer' = dtmfBuffer
                 /\ result'.outcome = "rejected"]_vars

\* The entries of slice(-10) of the history, system-role ones left out, are
\* the turns 2 .. Len - 1 of the request, in their order.
Recent(h) == {i \in DOMAIN h : i > Len(h) - 10 /\ h[i].role # "system"}

\* C27: the request is the system instruction, then the entries among the 10
\* most recent of the history that are not system-role, in their order, then
\* the new user turn; at most 12 turns.
C27_RequestShape ==
    step.type = "buildMessages" =>
        /\ Len(request) = Cardinality(Recent(history)) + 2
        /\ Len(request) <= 12
        /\ request[1] = [role |-> "system", content |-> SystemPrompt]
        /\ request[Len(request)] = [role |-> "user", content |-> UserPrompt]
        /\ \A i \in Recent(history) :
               request[1 + Cardinality({j \in Recent(history) : j <= i})] = history[i]

C27_Witness ==
    /\ step.type = "buildMessages"
    /\ Len(history) = 11
    /\ Len(request) = 10
    /\ history[1].role = "user"
    /\ history[11].role = "system"

\* C28: cleanForVoice is idempotent, and cleanForVoice("**Hello** #1") is
\* "Hello number 1".
C28_CleanForVoiceIdempotent ==
    step.type = "cleanForVoice" =>
        /\ cleanForVoice(chunks[1]) = chunks[1]
        /\ text = HelloText =>
               chunks[1] = <<"H", "e", "l", "l", "o", " ", "n", "u", "m", "b", "e",
                             "r", " ", "1">>

RECURSIVE JoinWithSpaces(_)
JoinWithSpaces(cs) ==
    IF cs = <<>> THEN <<>>
    ELSE IF Len(cs) = 1 THEN cs[1]
    ELSE cs[1] \o <<" ">> \o JoinWithSpaces(Tail(cs))

\* C29: every chunk of splitIntoSpeakableChunks(text, maxLength) is at most
\* maxLength long, and the chunks joined with single spaces are the cleaned
\* text.
C29_ChunksWithinMaxLength ==
    step.type = "splitIntoSpeakableChunks" =>
        /\ \A i \in DOMAIN chunks : Len(chunks[i]) <= step.number
        /\ JoinWithSpaces(chunks) = cleanForVoice(text)

\* C30: in every session history each Prompt's user turn is immediately
\* followed by the assistant turn that answers it: a user turn is the last
\* entry (its answer is awaited) or the next entry is an assistant turn, and
\* an assistant turn directly follows a user turn.
C30_UserTurnThenItsAnswer ==
    \A id \in DOMAIN sessions :
        LET h == sessions[id].conversationHistory
        IN  \A i \in DOMAIN h :
                /\ (h[i].role = "user" /\ i < Len(h)) => h[i + 1].role = "assistant"
                /\ h[i].role = "assistant" => (i > 1 /\ h[i - 1].role = "user")

\* C31: the assistant turn of a Prompt is appended only when the backend call
\* succeeded: no session history holds an assistant entry whose text is the
\* apology message of a backend failure, whatever the failure class.
C31_NoApologyInHistory ==
    \A id \in DOMAIN sessions :
        \A i \in DOMAIN sessions[id].conversationHistory :
            LET e == sessions[id].conversationHistory[i]
            IN  e.role = "assistant" =>
                    \A class \in FailureClasses : e.content # Apology(class)

\* C32: an Interrupt for session s aborts at most one stream, the one
\* registered for s, and leaves the handles and the streams of every other
\* session as they were; it writes no frame, and when s has no outstanding
\* stream it changes neither the handles nor the streams nor the registry.
C32_InterruptCancelsOnlyOwnStream ==
    [][(step'.type = "interrupt" /\ callSid[step'.conn] # Undefined) =>
          LET s == callSid[step'.conn]
          IN  /\ DOMAIN streams' = DOMAIN streams
              /\ \A k \in DOMAIN streams :
                    streams'[k] # streams[k] =>
                        /\ s \in DOMAIN activeStreams
                        /\ k = activeStreams[s]
                        /\ streams[k].sessionId = s
                        /\ streams'[k] = [streams[k] EXCEPT !.aborted = TRUE]
              /\ DOMAIN activeStreams' \subseteq DOMAIN activeStreams
              /\ \A x \in (DOMAIN activeStreams) \ {s} :
                    x \in DOMAIN activeStreams' /\ activeStreams'[x] = activeStreams[x]
              /\ sent' = <<>>
              /\ Running(s) = {} =>
                    /\ activeStreams' = activeStreams
                    /\ streams' = streams
                    /\ sessions' = sessions]_vars

\* An Interrupt has just aborted the stream of its session while another
\* session's stream is running with its handle registered.
C32_Witness ==
    /\ step.type = "interrupt"
    /\ callSid[step.conn] # Undefined
    /\ callSid[step.conn] \notin DOMAIN activeStreams
    /\ \E k \in DOMAIN streams :
          streams[k].sessionId = callSid[step.conn]
          /\ streams[k].aborted /\ streams[k].running
    /\ \E x \in DOMAIN activeStreams :
          x # callSid[step.conn] /\ streams[activeStreams[x]].running

\* C33: while a streaming call for session s is in progress and not cancelled,
\* the handle registered for s is that call's own controller; and a call that
\* finishes removes no handle but its own.
C33_HandleIsOwnStream ==
    [][/\ \A k \in DOMAIN streams' :
             (streams'[k].running /\ ~streams'[k].aborted) =>
                 /\ streams'[k].sessionId \in DOMAIN activeStreams'
                 /\ activeStreams'[streams'[k].sessionId] = k
       /\ \A k \in DOMAIN streams :
             (streams[k].running /\ ~streams'[k].running) =>
                 \A x \in DOMAIN activeStreams :
                     activeStreams[x] # k =>
                         (x \in DOMAIN activeStreams'
                          /\ activeStreams'[x] = activeStreams[x])]_vars

\* C34: every session a Setup created is removed in the end: in every state in
\* which all connections have closed the registry is empty and the count of
\* active calls is 0 (no step taken after the last close removes a session,
\* so a session present then stays for ever).
AllClosed == \A c \in Conns : readyState[c] = "CLOSED"

C34_RegistryEmptyOnceAllClosed ==
    AllClosed => (DOMAIN sessions = {} /\ getActiveCallCount(sessions) = 0)

\* C35: the request built while handling a Prompt holds the caller's new
\* utterance exactly once, as its final user turn, and not among the history
\* turns before it.
C35_UtteranceOnceInRequest ==
    step.type = "handlePrompt" =>
        /\ request[Len(request)] = [role |-> "user", content |-> UserPrompt]
        /\ Cardinality({i \in DOMAIN request : request[i].content = UserPrompt}) = 1

\* C36: no frame is written to a connection that is not open, and the
\* continuation of a Prompt that runs after its connection closed writes
\* nothing and adds no entry to the history of any session.
C36_LateCompletionIsSilent ==
    [][/\ \A i \in DOMAIN sent' : readyState'[sent'[i].to] = "OPEN"
       /\ (step'.type = "completion" /\ readyState[step'.conn] = "CLOSED") =>
              /\ sent' = <<>>
              /\ \A id \in DOMAIN sessions' :
                     /\ id \in DOMAIN sessions
                     /\ sessions'[id].conversationHistory =
                            sessions[id].conversationHistory]_vars

\* An execute call has just been made (it threw at the gate or invoked fn).
ExecuteCalled == step'.type \in {"execute:thrown", "execute:invoked"}

Elapsed == now - breaker.lastFailureTime

RejectedUntouched ==
    /\ step'.type = "execute:thrown"
    /\ step'.arg = "Circuit breaker is OPEN"
    /\ breaker' = breaker
    /\ executing' = executing

HalfOpenInvoked ==
    /\ step'.type = "execute:invoked"
    /\ breaker' = [breaker EXCEPT !.state = "HALF_OPEN"]
    /\ executing' = executing + 1

\* C37 as stated: execute on an OPEN breaker, while less than `timeout` has
\* passed since the last failure, rejects with 'Circuit breaker is OPEN'
\* without invoking fn and without changing failures or state; once `timeout`
\* has passed it moves to HALF_OPEN and invokes fn.
C37_OpenRejectsUntilTimeout ==
    [][(ExecuteCalled /\ breaker.state = "OPEN") =>
          IF Elapsed < breaker.timeout THEN RejectedUntouched
          ELSE HalfOpenInvoked]_vars

\* C37, amended: execute on an OPEN breaker, while at most `timeout` has
\* passed since the last failure, rejects with 'Circuit breaker is OPEN'
\* without invoking fn and without changing failures or state; once more than
\* `timeout` has passed it moves to HALF_OPEN and invokes fn.
C37_OpenRejectsThroughTimeout ==
    [][(ExecuteCalled /\ breaker.state = "OPEN") =>
          IF Elapsed <= breaker.timeout THEN RejectedUntouched
          ELSE HalfOpenInvoked]_vars

\* A call made exactly `timeout` after the last failure has been rejected,
\* the breaker still OPEN.
C37_Witness ==
    /\ step.type = "execute:thrown"
    /\ breaker.state = "OPEN"
    /\ now - breaker.lastFailureTime = breaker.timeout
    /\ breaker.failures >= breaker.threshold

\* CLOSED goes with failures < threshold, OPEN and HALF_OPEN with failures >=
\* threshold.
StateMatchesFailures(b) ==
    /\ b.state = "CLOSED" => b.failures < b.threshold
    /\ b.state \in {"OPEN", "HALF_OPEN"} => b.failures >= b.threshold

\* C38: for a breaker with threshold >= 1, in every reachable state CLOSED
\* implies failures < threshold and OPEN or HALF_OPEN implies failures >=
\* threshold; a call that succeeds while the breaker is HALF_OPEN resets it to
\* CLOSED with failures = 0, and a call that fails while it is HALF_OPEN
\* returns it to OPEN.
C38_StateTracksFailures ==
    [][/\ breaker'.threshold >= 1 => StateMatchesFailures(breaker')
       /\ (step'.type = "execute:resolved" /\ breaker.state = "HALF_OPEN") =>
              (breaker'.state = "CLOSED" /\ breaker'.failures = 0)
       /\ (step'.type = "execute:rejected" /\ breaker.state = "HALF_OPEN") =>
              breaker'.state = "OPEN"]_vars

\* The probe call of a HALF_OPEN breaker that needs two failures to open has
\* just succeeded and reset it.
C38_Witness ==
    /\ step.type = "execute:resolved"
    /\ step.arg = "Circuit breaker reset"
    /\ breaker.state = "CLOSED"
    /\ breaker.failures = 0
    /\ breaker.threshold = 2
    /\ executing = 0

RetryDone == retry.status \in {"returned", "rejected"}

\* What holds of a retryWithBackoff call at every moment: fn has been invoked
\* at most maxRetries times and once more than it has failed, unless the call
\* was rejected; a wait of baseDelay * 2^i followed failed attempt i (counted
\* from 0) and none followed the last attempt.
RetryShape ==
    /\ retry.invoked <= retry.maxRetries
    /\ \A k \in DOMAIN retry.waits :
           retry.waits[k] = retry.baseDelay * 2^(k - 1)
    /\ retry.status = "awaiting" =>
           /\ Len(retry.errors) = retry.invoked - 1
           /\ Len(retry.waits) = retry.invoked - 1
    /\ retry.status = "sleeping" =>
           /\ Len(retry.errors) = retry.invoked
           /\ Len(retry.waits) = retry.invoked
           /\ retry.invoked < retry.maxRetries
    /\ retry.status = "returned" =>
           /\ retry.outcome = FnResult
           /\ Len(retry.errors) = retry.invoked - 1
           /\ Len(retry.waits) = retry.invoked - 1
    /\ retry.status = "rejected" =>
           /\ retry.invoked = retry.maxRetries
           /\ Len(retry.errors) = retry.maxRetries
           /\ Len(retry.waits) = Max(0, retry.maxRetries - 1)
           /\ retry.maxRetries >= 1 =>
                  retry.outcome = retry.errors[retry.maxRetries]

\* C39: retryWithBackoff terminates when fn does; it invokes fn at most
\* maxRetries times, returns the result of the first success without invoking
\* fn again, rejects with the error of the last invocation after maxRetries
\* failures in a row, and waits baseDelay * 2^i between attempt i and attempt
\* i + 1 but not after the final attempt.
C39_RetryTerminatesWithBackoff ==
    /\ []RetryShape
    /\ [][RetryDone => retry' = retry]_vars
    /\ (retry.status # "idle") ~> RetryDone

\* A call with maxRetries = 4 and baseDelay = 1000 was rejected with the
\* error of its fourth attempt after waiting 1000, 2000 and 4000.
C39_Witness ==
    /\ retry.status = "rejected"
    /\ retry.maxRetries = 4
    /\ retry.errors = <<"E1", "E1", "E1", "E2">>
    /\ retry.outcome = "E2"
    /\ retry.waits = <<1000, 2000, 4000>>

====
